---- MODULE Spec2Model ----
(***************************************************************************)
(* Credit accounting of imagigenie: the user store with its credit         *)
(* balance (updateCredits), the Stripe webhook that settles purchases      *)
(* (POST -> createTransaction -> updateCredits) and the transformation     *)
(* form that charges a credit fee on "Apply Transformation"                *)
(* (onTransformHandler -> updateCredits, TransformedImage callbacks).      *)
(* Also the other server actions on the same store: the image catalog      *)
(* (addImage, updateImage, deleteImage, the paged listings), the user      *)
(* records (createUser, updateUser, deleteUser) and the form's onSubmit.   *)
(*                                                                         *)
(* Every database call (Transaction.create, User.findOneAndUpdate) is one  *)
(* atomic step of the store; a handler that awaits two database calls is   *)
(* two steps, so that other requests can run between them as they do on    *)
(* the server.                                                             *)
(***************************************************************************)
EXTENDS Integers, Sequences, FiniteSets, TLC

\* ------------------------------------------------------------------ bounds
MaxDeliveries == 2      \* webhook requests in one behaviour
MaxClicks == 2          \* "Apply Transformation" clicks per form
MaxInitCredits == 1     \* initial balances are drawn from 0..MaxInitCredits
MaxCalls == 2           \* image and user server-action calls in one behaviour
MaxImages == 3          \* image records ever created
MaxTime == 2            \* timestamps are drawn from 1..MaxTime
MaxLimit == 2           \* page sizes are drawn from 1..MaxLimit
MaxNewUsers == 2        \* User records created by createUser in one behaviour
MaxSubmits == 2         \* submits of one form

\* --------------------------------------------------------------- constants
\* creditFee of "@/constants" (imported by TransformationForm.tsx): the signed
\* amount one transformation adds to the balance; the form compares the
\* balance with Math.abs(creditFee), so the fee is a negative number.
creditFee == -1

Abs(n) == IF n < 0 THEN -n ELSE n

Null == "null"

\* The users of the store (their _id) and a buyer id that resolves to no user.
UserIds == {"u1", "u2"}
UnknownUser == "u9"

\* The external identity (clerkId) of each of these users, an identity that
\* has no User record at the start, and the _id values the store gives to the
\* User records it creates, in order.
ClerkOf == [u \in UserIds |-> IF u = "u1" THEN "c1" ELSE "c2"]
NewClerk == "c3"
ClerkIds == {ClerkOf[u] : u \in UserIds} \cup {NewClerk}
NewUserIds == <<"u3", "u4", "u5">>

\* ------------------------------------------------------------------ events
\* What the payment provider (or anyone else) can put in a webhook body:
\* event.type and, of event.data.object, id, amount_total and metadata
\* (metaCredits is <<n>>, or <<>> when metadata.credits is missing).
CheckoutCompleted == "checkout.session.completed"

Events ==
  [ e1 |-> [type |-> CheckoutCompleted, id |-> "cs_1", amount_total |-> 200,
            plan |-> "Pro", metaCredits |-> <<2>>, buyerId |-> "u1"],
    e2 |-> [type |-> CheckoutCompleted, id |-> "cs_2", amount_total |-> 100,
            plan |-> "Pro", metaCredits |-> <<1>>, buyerId |-> "u2"],
    e3 |-> [type |-> CheckoutCompleted, id |-> "cs_3", amount_total |-> 100,
            plan |-> "Pro", metaCredits |-> <<1>>, buyerId |-> UnknownUser],
    e4 |-> [type |-> "payment_intent.succeeded", id |-> "pi_4", amount_total |-> 100,
            plan |-> "Pro", metaCredits |-> <<1>>, buyerId |-> "u1"],
    e5 |-> [type |-> CheckoutCompleted, id |-> "cs_5", amount_total |-> 100,
            plan |-> "Pro", metaCredits |-> <<>>, buyerId |-> "u1"] ]

EventNames == DOMAIN Events
SessionIds == {Events[e].id : e \in EventNames}

Deliveries == 1..MaxDeliveries
Forms == {"f1", "f2"}
CfgVals == {"a", "b"}

Calls == 1..MaxCalls
ImageIds == 1..MaxImages
Times == 1..MaxTime

VARIABLES
  users,          \* the User collection: _id -> [credits, clerkId, firstName]
  userSeq,        \* the number of User records createUser has created
  transactions,   \* the Transaction collection, in insertion order
  hooks,          \* webhook requests: position in POST, body, signature, response
  forms,          \* the state of each mounted TransformationForm
  credits0,       \* the balances at the start (never changes)
  images,         \* the Image collection: _id -> [author, title, updatedAt]
  imageSeq,       \* the number of Image records ever created (ids are not reused)
  reqs,           \* image and user server-action calls: position, arguments, result
  pages           \* a listing session: its query and the pages fetched so far

catalogVars == <<images, imageSeq, reqs, pages, userSeq>>
ledgerVars == <<transactions, hooks, forms, credits0>>

vars ==
  <<users, userSeq, transactions, hooks, forms, credits0, images, imageSeq, reqs, pages>>

\* ------------------------------------------------------------ user.actions
\* updateCredits: User.findOneAndUpdate({_id: userId}, {$inc: {credits: creditFee}})
\* is one atomic update of the store; it updates nothing when no user matches,
\* and updateCredits then throws "User credits update failed".
updateCreditsFound(us, userId) == userId \in DOMAIN us

\* User.findOneAndUpdate({ _id: userId }, { $inc: { creditBalance: creditFee } },
\* { new: true }): one atomic increment of the stored balance.
updateCreditsStore_Set(us, userId, fee) ==
  IF updateCreditsFound(us, userId)
    THEN [us EXCEPT ![userId].credits = fee]
    ELSE us

updateCreditsStore_Overwrite(us, userId, fee) ==
  IF updateCreditsFound(us, userId)
    THEN [us EXCEPT ![userId].credits = IF fee >= 0 THEN fee ELSE @ + fee]
    ELSE us

updateCreditsStore(us, userId, fee) ==
  IF updateCreditsFound(us, userId)
    THEN [us EXCEPT ![userId].credits = @ + fee]
    ELSE us

\* -------------------------------------------------------- transaction model
\* The Transaction collection has a unique index on stripeId: create fails
\* with a duplicate-key error when a record with that stripeId exists.
TransactionCreateOk_NoIndex(txs, doc) == TRUE

TransactionCreateOk(txs, doc) ==
  \A i \in DOMAIN txs : txs[i].stripeId # doc.stripeId

\* ------------------------------------------------------------ webhook POST
\* stripe.webhooks.constructEvent throws when the signature does not verify.
constructEventOk_NoVerify(h) == TRUE

constructEventOk(h) == h.sigValid

\* Number(metadata?.credits) || 0; metadata credits are <<n>>, or <<>> when the
\* key is missing or not a number.
NumberOrZero(m) == IF m = <<>> THEN 0 ELSE m[1]

\* The transaction object POST builds from the event.
PostTransaction(ev) ==
  [ stripeId |-> ev.id,
    amount   |-> IF ev.amount_total # 0 THEN ev.amount_total \div 100 ELSE 0,
    plan     |-> ev.plan,
    credits  |-> NumberOrZero(ev.metaCredits),
    buyerId  |-> ev.buyerId ]

\* createTransaction's try block: when Transaction.create throws, control goes
\* to the catch (handleError rethrows) and updateCredits is not called.
createTransactionNext_NoThrow(createOk) == "created"

createTransactionNext(createOk) == IF createOk THEN "created" ELSE "done"

\* The HTTP status of POST's answers: NextResponse.json(...) without a status
\* option and new Response("", {status: 200}) are 200; an error that
\* createTransaction rethrows is not caught by POST and ends the request as 500.
ResponseStatus(resp) ==
  CASE resp = "WebhookError" -> 200
    [] resp = "OK"           -> 200
    [] resp = "Empty200"     -> 200
    [] resp = "Error500"     -> 500
    [] OTHER                 -> 0

IdleHook == [pc |-> "idle", evt |-> "e1", sigValid |-> TRUE, resp |-> "none"]

\* A POST request arrives at the webhook endpoint: any body, signed or not.
Deliver(d, e, sig) ==
  /\ hooks[d].pc = "idle"
  /\ \A c \in Deliveries : c < d => hooks[c].pc # "idle"
  /\ hooks' = [hooks EXCEPT ![d] = [pc |-> "sent", evt |-> e, sigValid |-> sig,
                                    resp |-> "none"]]
  /\ UNCHANGED <<users, transactions, forms, credits0, catalogVars>>

\* POST up to and including createTransaction's Transaction.create.
POST_NoTypeCheck(d) ==
  LET h  == hooks[d]
      tx == PostTransaction(Events[h.evt])
      ok == TransactionCreateOk(transactions, tx)
  IN
  /\ h.pc = "sent"
  /\ IF ~constructEventOk(h)
       THEN /\ hooks' = [hooks EXCEPT ![d].pc = "done", ![d].resp = "WebhookError"]
            /\ UNCHANGED transactions
       ELSE /\ transactions' = IF ok THEN Append(transactions, tx) ELSE transactions
            /\ hooks' = [hooks EXCEPT
                           ![d].pc = createTransactionNext(ok),
                           ![d].resp = IF createTransactionNext(ok) = "done"
                                         THEN "Error500" ELSE "none"]
  /\ UNCHANGED <<users, forms, credits0, catalogVars>>

POST(d) ==
  LET h  == hooks[d]
      ev == Events[h.evt]
      tx == PostTransaction(ev)
      ok == TransactionCreateOk(transactions, tx)
  IN
  /\ h.pc = "sent"
  /\ IF ~constructEventOk(h)
       THEN /\ hooks' = [hooks EXCEPT ![d].pc = "done", ![d].resp = "WebhookError"]
            /\ UNCHANGED transactions
       ELSE IF ev.type # CheckoutCompleted
         THEN /\ hooks' = [hooks EXCEPT ![d].pc = "done", ![d].resp = "Empty200"]
              /\ UNCHANGED transactions
         ELSE /\ transactions' = IF ok THEN Append(transactions, tx) ELSE transactions
              /\ hooks' = [hooks EXCEPT
                             ![d].pc = createTransactionNext(ok),
                             ![d].resp = IF createTransactionNext(ok) = "done"
                                           THEN "Error500" ELSE "none"]
  /\ UNCHANGED <<users, forms, credits0, catalogVars>>

\* createTransaction after Transaction.create: updateCredits(buyerId, credits),
\* then POST answers {message: "OK"}; an error updateCredits throws is rethrown.
CreateTransactionUpdateCredits(d) ==
  LET h  == hooks[d]
      tx == PostTransaction(Events[h.evt])
  IN
  /\ h.pc = "created"
  /\ users' = updateCreditsStore(users, tx.buyerId, tx.credits)
  /\ hooks' = [hooks EXCEPT ![d].pc = "done",
                            ![d].resp = IF updateCreditsFound(users, tx.buyerId)
                                          THEN "OK" ELSE "Error500"]
  /\ UNCHANGED <<transactions, forms, credits0, catalogVars>>

\* ------------------------------------------------------- TransformationForm
\* The userId prop of each form: both forms (two tabs) belong to user u1.
FormUser == [f \in Forms |-> "u1"]

\* deepMergeObjects(newTransformation, transformationConfig) for configs with
\* one key (the prompt): the keys of the first argument override the second.
deepMergeObjects(obj1, obj2) ==
  IF obj2 = Null THEN obj1 ELSE IF obj1 = Null THEN obj2 ELSE obj1

\* {creditBalance < Math.abs(creditFee) && <InsufficientCreditsModal />}: the
\* modal dialog covers the form, so the buttons cannot be clicked under it.
InsufficientCreditsModalShown(fm) == fm.creditBalance < Abs(creditFee)

\* TransformedImage renders CldImage only when image?.publicId and
\* transformationConfig are set; the browser loads the transformed image (the
\* image provider transforms it) whenever the rendered configuration changes.
RenderKey(fm) ==
  IF fm.image /\ fm.transformationConfig # Null THEN fm.transformationConfig ELSE Null

Rerender(old, new) ==
  [new EXCEPT !.img = IF RenderKey(new) = Null THEN "none"
                      ELSE IF RenderKey(new) # RenderKey(old) THEN "loading"
                      ELSE old.img]

\* The button is disabled={isTransforming || newTransformation === null}.
ApplyEnabled(fm) == ~fm.isTransforming /\ fm.newTransformation # Null

\* MediaUploader calls setImage with the uploaded image.
setImage(f) ==
  /\ ~forms[f].image
  /\ forms' = [forms EXCEPT ![f] = Rerender(@, [@ EXCEPT !.image = TRUE])]
  /\ UNCHANGED <<users, transactions, hooks, credits0, catalogVars>>

\* onInputChangeHandler: after the debounce, setNewTransformation with the value.
onInputChangeHandler(f, v) ==
  /\ forms' = [forms EXCEPT ![f].newTransformation = v]
  /\ UNCHANGED <<users, transactions, hooks, credits0, catalogVars>>

\* onTransformHandler: the state updates, the re-render they cause, and the
\* updateCredits server action it starts without awaiting it.
onTransformHandler(f) ==
  LET fm == forms[f] IN
  /\ ApplyEnabled(fm)
  /\ ~InsufficientCreditsModalShown(fm)
  /\ fm.clicks < MaxClicks
  /\ forms' = [forms EXCEPT ![f] =
       Rerender(fm, [fm EXCEPT
         !.isTransforming = TRUE,
         !.transformationConfig =
            deepMergeObjects(fm.newTransformation, fm.transformationConfig),
         !.newTransformation = Null,
         !.clicks = @ + 1,
         !.pending = @ + 1])]
  /\ UNCHANGED <<users, transactions, hooks, credits0, catalogVars>>

\* onTransformHandler invoked twice from one render of the form. The handler
\* has no condition of its own (only the rendered button is disabled), so
\* both invocations run: each reads the same newTransformation and
\* transformationConfig, sets the same state and starts its own updateCredits.
onTransformHandlerTwice(f) ==
  LET fm == forms[f] IN
  /\ ApplyEnabled(fm)
  /\ ~InsufficientCreditsModalShown(fm)
  /\ fm.clicks + 2 <= MaxClicks
  /\ forms' = [forms EXCEPT ![f] =
       Rerender(fm, [fm EXCEPT
         !.isTransforming = TRUE,
         !.transformationConfig =
            deepMergeObjects(fm.newTransformation, fm.transformationConfig),
         !.newTransformation = Null,
         !.clicks = @ + 2,
         !.pending = @ + 2])]
  /\ UNCHANGED <<users, transactions, hooks, credits0, catalogVars>>

\* The server runs updateCredits(userId, creditFee) for a form's request.
FormUpdateCredits(f) ==
  /\ forms[f].pending > 0
  /\ users' = updateCreditsStore(users, FormUser[f], creditFee)
  /\ forms' = [forms EXCEPT ![f].pending = @ - 1]
  /\ UNCHANGED <<transactions, hooks, credits0, catalogVars>>

\* CldImage onLoad: setIsTransforming(false).
onLoad(f) ==
  /\ forms[f].img = "loading"
  /\ forms' = [forms EXCEPT ![f].img = "loaded", ![f].isTransforming = FALSE]
  /\ UNCHANGED <<users, transactions, hooks, credits0, catalogVars>>

\* CldImage onError: starts the 8000 ms debounce timer.
onError(f) ==
  /\ forms[f].img = "loading"
  /\ forms' = [forms EXCEPT ![f].img = "failed", ![f].errTimer = TRUE]
  /\ UNCHANGED <<users, transactions, hooks, credits0, catalogVars>>

\* The debounce timer of onError fires: setIsTransforming(false).
onErrorDebounced(f) ==
  /\ forms[f].errTimer
  /\ forms' = [forms EXCEPT ![f].errTimer = FALSE, ![f].isTransforming = FALSE]
  /\ UNCHANGED <<users, transactions, hooks, credits0, catalogVars>>

\* ------------------------------------------------------------ image.actions
\* A call of a server action: its position (pc), its arguments and its result.
\* userId is the userId argument (for deleteImage, which takes none, the
\* signed-in user who makes the call); image is the submitted image object,
\* whose author field is Null when the object carries none.
IdleCall ==
  [ op |-> "none", pc |-> "idle", userId |-> Null, imageId |-> 0,
    image |-> [title |-> Null, author |-> Null], found |-> Null,
    result |-> "none" ]

\* A server action is called with its arguments.
Call(c, op, userId, imageId, image) ==
  /\ reqs[c].pc = "idle"
  /\ \A b \in Calls : b < c => reqs[b].pc # "idle"
  /\ reqs' = [reqs EXCEPT ![c] = [op |-> op, pc |-> "called", userId |-> userId,
                                  imageId |-> imageId, image |-> image,
                                  found |-> Null, result |-> "none"]]
  /\ UNCHANGED <<users, images, imageSeq, pages, ledgerVars, userSeq>>

\* addImage: const author = await User.findById(userId); if (!author) throw.
addImageAuthorFound(us, userId) == userId \in DOMAIN us

addImageFindUser(c) ==
  /\ reqs[c].pc = "called" /\ reqs[c].op = "addImage"
  /\ reqs' = IF addImageAuthorFound(users, reqs[c].userId)
               THEN [reqs EXCEPT ![c].pc = "found"]
               ELSE [reqs EXCEPT ![c].pc = "done", ![c].result = "User not found"]
  /\ UNCHANGED <<users, images, imageSeq, pages, ledgerVars, userSeq>>

\* addImage: Image.create({...image, author: author._id}); createdAt and
\* updatedAt default to Date.now.
addImageCreate(c, t) ==
  LET id == imageSeq + 1 IN
  /\ reqs[c].pc = "found" /\ reqs[c].op = "addImage"
  /\ imageSeq < MaxImages
  /\ images' = [i \in DOMAIN images \cup {id} |->
                  IF i = id
                    THEN [author |-> reqs[c].userId, title |-> reqs[c].image.title,
                          updatedAt |-> t]
                    ELSE images[i]]
  /\ imageSeq' = id
  /\ reqs' = [reqs EXCEPT ![c].pc = "done", ![c].result = "ok", ![c].imageId = id]
  /\ UNCHANGED <<users, pages, ledgerVars, userSeq>>

\* updateImage: if (!imageToUpdate || imageToUpdate.author.toHexString() !== userId)
\* throw new Error("Unauthorized or image not found").
updateImageAllowed_NoAuthorCheck(imgs, imageId, userId) == imageId \in DOMAIN imgs

updateImageAllowed(imgs, imageId, userId) ==
  /\ imageId \in DOMAIN imgs
  /\ imgs[imageId].author = userId

updateImageFind(c) ==
  /\ reqs[c].pc = "called" /\ reqs[c].op = "updateImage"
  /\ reqs' = IF updateImageAllowed(images, reqs[c].imageId, reqs[c].userId)
               THEN [reqs EXCEPT ![c].pc = "authorized"]
               ELSE [reqs EXCEPT ![c].pc = "done",
                                 ![c].result = "Unauthorized or image not found"]
  /\ UNCHANGED <<users, images, imageSeq, pages, ledgerVars, userSeq>>

\* Image.findByIdAndUpdate(id, image, {new: true}): sets the fields the image
\* object carries on the record with that id; without upsert it creates nothing.
findByIdAndUpdate(imgs, imageId, image) ==
  IF imageId \in DOMAIN imgs
    THEN [imgs EXCEPT ![imageId] =
            [@ EXCEPT !.title = image.title,
                      !.author = IF image.author = Null THEN @ ELSE image.author]]
    ELSE imgs

updateImageUpdate(c) ==
  /\ reqs[c].pc = "authorized" /\ reqs[c].op = "updateImage"
  /\ images' = findByIdAndUpdate(images, reqs[c].imageId, reqs[c].image)
  /\ reqs' = [reqs EXCEPT ![c].pc = "done",
                          ![c].result = IF reqs[c].imageId \in DOMAIN images
                                          THEN "ok" ELSE "null"]
  /\ UNCHANGED <<users, imageSeq, pages, ledgerVars, userSeq>>

\* deleteImage(imageId): Image.findByIdAndDelete(imageId), then redirect("/").
deleteImage(c) ==
  /\ reqs[c].pc = "called" /\ reqs[c].op = "deleteImage"
  /\ images' = [i \in DOMAIN images \ {reqs[c].imageId} |-> images[i]]
  /\ reqs' = [reqs EXCEPT ![c].pc = "done", ![c].result = "redirect"]
  /\ UNCHANGED <<users, imageSeq, pages, ledgerVars, userSeq>>

\* --------------------------------------------------- image.actions: listing
\* Image.find({}) and Image.find({ author: userId }): the ids the filter selects.
Matching_NoFilter(imgs, kind, userId) == DOMAIN imgs

Matching(imgs, kind, userId) ==
  IF kind = "user" THEN {i \in DOMAIN imgs : imgs[i].author = userId}
                   ELSE DOMAIN imgs

\* .sort({ updatedAt: -1 }): the orders in which one query may return the
\* selected images. Images with equal updatedAt have no defined relative
\* order, and nothing fixes it from one query to the next.
SortUpdatedAtDesc(imgs, S) ==
  { q \in [1..Cardinality(S) -> S] :
      /\ \A i, j \in DOMAIN q : i # j => q[i] # q[j]
      /\ \A i, j \in DOMAIN q : i < j => imgs[q[i]].updatedAt >= imgs[q[j]].updatedAt }

\* .skip(skipAmount).limit(limit) with skipAmount = (Number(page) - 1) * limit.
SkipLimit(q, page, limit) ==
  LET skipAmount == (page - 1) * limit
      last == IF skipAmount + limit < Len(q) THEN skipAmount + limit ELSE Len(q)
  IN  SubSeq(q, skipAmount + 1, last)

\* Math.ceil(totalImages / limit) for totalImages >= 0 and limit > 0.
MathCeilDiv_Floor(totalImages, limit) == totalImages \div limit

MathCeilDiv(totalImages, limit) ==
  IF totalImages % limit = 0 THEN totalImages \div limit
                             ELSE (totalImages \div limit) + 1

\* What one query for a page may return: the page's images and the page count.
PageResults(imgs, S, limit, page) ==
  { [data |-> SkipLimit(q, page, limit),
     totalPage |-> MathCeilDiv(Cardinality(S), limit)] :
    q \in SortUpdatedAtDesc(imgs, S) }

\* The caller's paging: the first page starts a listing with its filter and
\* page size; page p + 1 is requested after page p while p < totalPage.
PageRequested(kind, userId, limit, page) ==
  \/ pages.kind = "none" /\ page = 1
  \/ /\ pages.kind = kind /\ pages.userId = userId /\ pages.limit = limit
     /\ page = Len(pages.results) + 1
     /\ page <= pages.results[Len(pages.results)].totalPage

\* getAllImages({ limit, page }) without a search query: query = {}.
getAllImages(limit, page) ==
  /\ PageRequested("all", Null, limit, page)
  /\ \E r \in PageResults(images, Matching(images, "all", Null), limit, page) :
       pages' = [kind |-> "all", userId |-> Null, limit |-> limit,
                 results |-> Append(pages.results, r)]
  /\ UNCHANGED <<users, images, imageSeq, reqs, ledgerVars, userSeq>>

\* getUserImages({ limit, page, userId }).
getUserImages(limit, page, userId) ==
  /\ PageRequested("user", userId, limit, page)
  /\ \E r \in PageResults(images, Matching(images, "user", userId), limit, page) :
       pages' = [kind |-> "user", userId |-> userId, limit |-> limit,
                 results |-> Append(pages.results, r)]
  /\ UNCHANGED <<users, images, imageSeq, reqs, ledgerVars, userSeq>>

\* ------------------------------------------------ TransformationForm: save
\* onSubmit of a form mounted with the props action ("Add" or "Update") and
\* data (the _id of the image being updated, 0 when data is null): when data
\* or an uploaded image is there, it calls addImage or updateImage with
\* imageData, an object that has a title and no author field, and the form's
\* userId; otherwise it calls nothing.
onSubmit(f, c, action, data) ==
  LET fm == forms[f]
      imageData == [title |-> "t2", author |-> Null]
  IN
  /\ fm.submits < MaxSubmits
  /\ (action = "Add") = (data = 0)
  /\ forms' = [forms EXCEPT ![f].submits = @ + 1]
  /\ IF data # 0 \/ fm.image
       THEN /\ reqs[c].pc = "idle"
            /\ \A b \in Calls : b < c => reqs[b].pc # "idle"
            /\ reqs' = [reqs EXCEPT ![c] =
                 [op |-> IF action = "Add" THEN "addImage" ELSE "updateImage",
                  pc |-> "called", userId |-> FormUser[f], imageId |-> data,
                  image |-> imageData, found |-> Null, result |-> "none"]]
       ELSE reqs' = reqs
  /\ UNCHANGED <<users, userSeq, transactions, hooks, credits0, images, imageSeq, pages>>

\* ------------------------------------------- user.actions: create, update
\* The _id values of the User records with the given external identity.
UsersByClerkId(us, clerkId) == {u \in DOMAIN us : us[u].clerkId = clerkId}

\* The User collection has a unique index on clerkId: a write that would give
\* two records the same clerkId fails with a duplicate-key error.
ClerkIdFree_NoIndex(us, u, clerkId) == TRUE

ClerkIdFree(us, u, clerkId) ==
  \A v \in DOMAIN us \ {u} : us[v].clerkId # clerkId

\* createUser(user): User.create(user) is one insert. The new record takes the
\* fields of the user object; its balance is the schema's default, bal. When
\* the insert fails the error is rethrown and nothing is stored. The call's
\* userId field holds the clerkId of its user object.
createUser(c, user, bal) ==
  LET id == NewUserIds[userSeq + 1]
      ok == ClerkIdFree(users, id, user.clerkId)
  IN
  /\ reqs[c].pc = "idle"
  /\ \A b \in Calls : b < c => reqs[b].pc # "idle"
  /\ userSeq < MaxNewUsers
  /\ users' = IF ok
                THEN [u \in DOMAIN users \cup {id} |->
                        IF u = id
                          THEN [credits |-> bal, clerkId |-> user.clerkId,
                                firstName |-> user.firstName]
                          ELSE users[u]]
                ELSE users
  /\ userSeq' = IF ok THEN userSeq + 1 ELSE userSeq
  /\ reqs' = [reqs EXCEPT ![c] =
                [op |-> "createUser", pc |-> "done", userId |-> user.clerkId,
                 imageId |-> 0, image |-> [title |-> Null, author |-> Null],
                 found |-> IF ok THEN id ELSE Null,
                 result |-> IF ok THEN "ok" ELSE "duplicate key"]]
  /\ UNCHANGED <<images, imageSeq, pages, ledgerVars>>

\* The update object applied to a user record: User.findOneAndUpdate(filter,
\* user) sets every field of the schema the object carries. A field the
\* object does not carry is Null (firstName, clerkId) or <<>> (credits).
ApplyUpdate(rec, user) ==
  [ credits   |-> IF user.credits = <<>> THEN rec.credits ELSE user.credits[1],
    clerkId   |-> IF user.clerkId = Null THEN rec.clerkId ELSE user.clerkId,
    firstName |-> IF user.firstName = Null THEN rec.firstName ELSE user.firstName ]

\* updateUser(clerkId, user): one User.findOneAndUpdate({ clerkId }, user,
\* { new: true }); "User update failed" when no record matches, and nothing is
\* stored when the write fails.
updateUser(clerkId, user) ==
  /\ \E u \in UsersByClerkId(users, clerkId) :
       /\ ClerkIdFree(users, u, ApplyUpdate(users[u], user).clerkId)
       /\ users' = [users EXCEPT ![u] = ApplyUpdate(@, user)]
  /\ UNCHANGED <<catalogVars, ledgerVars>>

\* ------------------------------------------------------ user.actions: delete
\* deleteUser(clerkId): const userToDelete = await User.findOne({ clerkId });
\* throws "User not found" when there is none. The call's userId field holds
\* its clerkId argument.
deleteUserFind(c) ==
  /\ reqs[c].pc = "called" /\ reqs[c].op = "deleteUser"
  /\ IF UsersByClerkId(users, reqs[c].userId) = {}
       THEN reqs' = [reqs EXCEPT ![c].pc = "done", ![c].result = "User not found"]
       ELSE \E u \in UsersByClerkId(users, reqs[c].userId) :
              reqs' = [reqs EXCEPT ![c].pc = "found", ![c].found = u]
  /\ UNCHANGED <<users, images, imageSeq, pages, ledgerVars, userSeq>>

\* deleteUser: User.findByIdAndDelete(userToDelete._id) and nothing else.
deleteUserDelete_Cascade(c) ==
  /\ reqs[c].pc = "found" /\ reqs[c].op = "deleteUser"
  /\ users' = [u \in DOMAIN users \ {reqs[c].found} |-> users[u]]
  /\ transactions' = SelectSeq(transactions, LAMBDA t : t.buyerId # reqs[c].found)
  /\ reqs' = [reqs EXCEPT ![c].pc = "done",
                          ![c].result = IF reqs[c].found \in DOMAIN users
                                          THEN "ok" ELSE "null"]
  /\ UNCHANGED <<images, imageSeq, pages, hooks, forms, credits0, userSeq>>

deleteUserDelete_CascadeImages(c) ==
  /\ reqs[c].pc = "found" /\ reqs[c].op = "deleteUser"
  /\ users' = [u \in DOMAIN users \ {reqs[c].found} |-> users[u]]
  /\ images' = [i \in {j \in DOMAIN images : images[j].author # reqs[c].found}
                  |-> images[i]]
  /\ reqs' = [reqs EXCEPT ![c].pc = "done",
                          ![c].result = IF reqs[c].found \in DOMAIN users
                                          THEN "ok" ELSE "null"]
  /\ UNCHANGED <<imageSeq, pages, ledgerVars, userSeq>>

deleteUserDelete(c) ==
  /\ reqs[c].pc = "found" /\ reqs[c].op = "deleteUser"
  /\ users' = [u \in DOMAIN users \ {reqs[c].found} |-> users[u]]
  /\ reqs' = [reqs EXCEPT ![c].pc = "done",
                          ![c].result = IF reqs[c].found \in DOMAIN users
                                          THEN "ok" ELSE "null"]
  /\ UNCHANGED <<images, imageSeq, pages, ledgerVars, userSeq>>

\* ------------------------------------------------------------------- Init
\* useState(...) of a form mounted with action "Add": data = null, config = null,
\* and creditBalance the user's balance when the page was rendered.
\* A stored user: credit balance, external identity, a profile field.
InitUser(u, bal) == [credits |-> bal, clerkId |-> ClerkOf[u], firstName |-> "n1"]

InitForm(bal) ==
  [ creditBalance        |-> bal,
    image                |-> FALSE,
    newTransformation    |-> Null,
    transformationConfig |-> Null,
    isTransforming       |-> FALSE,
    img                  |-> "none",
    errTimer             |-> FALSE,
    clicks               |-> 0,
    pending              |-> 0,
    submits              |-> 0 ]

\* The store holds one saved image, created by user u1.
InitImages == (1 :> [author |-> "u1", title |-> "t1", updatedAt |-> 1])

NoListing == [kind |-> "none", userId |-> Null, limit |-> 1, results |-> <<>>]

Init ==
  /\ credits0 \in [UserIds -> 0..MaxInitCredits]
  /\ users = [u \in UserIds |-> InitUser(u, credits0[u])]
  /\ userSeq = 0
  /\ transactions = <<>>
  /\ hooks = [d \in Deliveries |-> IdleHook]
  /\ forms = [f \in Forms |-> InitForm(credits0[FormUser[f]])]
  /\ images = InitImages
  /\ imageSeq = 1
  /\ reqs = [c \in Calls |-> IdleCall]
  /\ pages = NoListing

NextSettle ==
  \/ \E d \in Deliveries, e \in EventNames, sig \in BOOLEAN : Deliver(d, e, sig)
  \/ \E d \in Deliveries : POST(d)
  \/ \E d \in Deliveries : CreateTransactionUpdateCredits(d)

NextForms ==
  \/ \E f \in Forms : setImage(f)
  \/ \E f \in Forms, v \in CfgVals : onInputChangeHandler(f, v)
  \/ \E f \in Forms : onTransformHandler(f)
  \/ \E f \in Forms : FormUpdateCredits(f)
  \/ \E f \in Forms : onLoad(f)
  \/ \E f \in Forms : onError(f)
  \/ \E f \in Forms : onErrorDebounced(f)

\* The purchase that runs beside the forms in SpecGate: one genuine delivery
\* of event e1 (2 credits for user u1).
NextPurchase ==
  \/ Deliver(1, "e1", TRUE)
  \/ POST(1)
  \/ CreateTransactionUpdateCredits(1)

\* The spending that runs beside the webhook in SpecSettle: user u1 applies a
\* transformation on form f1.
NextSpend ==
  \/ onInputChangeHandler("f1", "a")
  \/ onTransformHandler("f1")
  \/ FormUpdateCredits("f1")

\* Every operation that adjusts a balance, with what enables it: the charges
\* of both forms (an image is uploaded, a field edited, the transformation
\* applied and loaded) beside the purchase.
NextCharges ==
  \/ \E f \in Forms : setImage(f)
  \/ \E f \in Forms : onInputChangeHandler(f, "a")
  \/ \E f \in Forms : onTransformHandler(f)
  \/ \E f \in Forms : FormUpdateCredits(f)
  \/ \E f \in Forms : onLoad(f)

\* The Apply Transformation button of the forms, pressed once or triggered
\* twice before the form renders again.
NextApply ==
  \/ NextCharges
  \/ \E f \in Forms : onTransformHandlerTwice(f)

\* Everything that happens on form f1.
NextForm1 ==
  \/ setImage("f1")
  \/ \E v \in CfgVals : onInputChangeHandler("f1", v)
  \/ onTransformHandler("f1")
  \/ FormUpdateCredits("f1")
  \/ onLoad("f1")
  \/ onError("f1")
  \/ onErrorDebounced("f1")

\* Any stored set of images, listed page by page.
InitPages ==
  /\ credits0 = [u \in UserIds |-> 0]
  /\ users = [u \in UserIds |-> InitUser(u, 0)]
  /\ userSeq = 0
  /\ transactions = <<>>
  /\ hooks = [d \in Deliveries |-> IdleHook]
  /\ forms = [f \in Forms |-> InitForm(0)]
  /\ \E n \in 0..MaxImages :
       /\ images \in [1..n -> [author : UserIds, title : {"t1"}, updatedAt : Times]]
       /\ imageSeq = n
  /\ reqs = [c \in Calls |-> IdleCall]
  /\ pages = NoListing

NextPages ==
  \/ \E limit \in 1..MaxLimit, page \in 1..MaxImages : getAllImages(limit, page)
  \/ \E limit \in 1..MaxLimit, page \in 1..MaxImages, u \in UserIds :
       getUserImages(limit, page, u)

\* What the identity provider's events (or any caller of the server actions)
\* can pass to createUser and updateUser.
NewUsers == [clerkId : {ClerkOf["u1"], NewClerk}, firstName : {"n1"}]

UserUpdates ==
  [firstName : {"n2"}, credits : {<<>>, <<3>>}, clerkId : {Null, ClerkOf["u2"]}]

NoImage == [title |-> Null, author |-> Null]

NextUsers ==
  \/ \E c \in Calls, user \in NewUsers, bal \in 0..MaxInitCredits :
       createUser(c, user, bal)
  \/ \E clerkId \in ClerkIds, user \in UserUpdates : updateUser(clerkId, user)
  \/ \E c \in Calls, clerkId \in ClerkIds : Call(c, "deleteUser", clerkId, 0, NoImage)
  \/ \E c \in Calls : deleteUserFind(c)
  \/ \E c \in Calls : deleteUserDelete(c)

\* The operations that decide which external identity a User record has:
\* the same calls, with the balance left out of their arguments.
NextIdentity ==
  \/ \E c \in Calls, user \in NewUsers : createUser(c, user, 0)
  \/ \E clerkId \in ClerkIds, user \in {x \in UserUpdates : x.credits = <<>>} :
       updateUser(clerkId, user)
  \/ \E c \in Calls, clerkId \in ClerkIds : Call(c, "deleteUser", clerkId, 0, NoImage)
  \/ \E c \in Calls : deleteUserFind(c)
  \/ \E c \in Calls : deleteUserDelete(c)

\* The catalog starts with one saved image by user u1 and no credits.
InitCatalog ==
  /\ credits0 = [u \in UserIds |-> 0]
  /\ users = [u \in UserIds |-> InitUser(u, 0)]
  /\ userSeq = 0
  /\ transactions = <<>>
  /\ hooks = [d \in Deliveries |-> IdleHook]
  /\ forms = [f \in Forms |-> InitForm(0)]
  /\ images = InitImages
  /\ imageSeq = 1
  /\ reqs = [c \in Calls |-> IdleCall]
  /\ pages = NoListing

\* The image and user server actions, called with any arguments.
CallArgs ==
  [op : {"addImage"}, userId : UserIds \cup {UnknownUser}, imageId : {0},
   image : [title : {"t2"}, author : {Null}]]
  \cup
  [op : {"updateImage"}, userId : UserIds, imageId : {1, 2},
   image : [title : {"t2"}, author : {Null, "u2"}]]
  \cup
  [op : {"deleteImage"}, userId : UserIds, imageId : {1, 2},
   image : [title : {Null}, author : {Null}]]
  \cup
  [op : {"deleteUser"}, userId : {ClerkOf[u] : u \in UserIds}, imageId : {0},
   image : [title : {Null}, author : {Null}]]

NextCatalog ==
  \/ \E c \in Calls, a \in CallArgs : Call(c, a.op, a.userId, a.imageId, a.image)
  \/ \E c \in Calls : addImageFindUser(c)
  \/ \E c \in Calls, t \in Times : addImageCreate(c, t)
  \/ \E c \in Calls : updateImageFind(c)
  \/ \E c \in Calls : updateImageUpdate(c)
  \/ \E c \in Calls : deleteImage(c)
  \/ \E c \in Calls : deleteUserFind(c)
  \/ \E c \in Calls : deleteUserDelete(c)

\* Saving from form f1 (with the server actions it calls), beside everything
\* else that writes to a user record: applying a transformation, a purchase
\* and a profile update.
NextSave ==
  \/ \E c \in Calls, action \in {"Add", "Update"}, data \in {0, 1} :
       onSubmit("f1", c, action, data)
  \/ \E c \in Calls : addImageFindUser(c)
  \/ \E c \in Calls, t \in Times : addImageCreate(c, t)
  \/ \E c \in Calls : updateImageFind(c)
  \/ \E c \in Calls : updateImageUpdate(c)
  \/ setImage("f1")
  \/ NextSpend
  \/ NextPurchase
  \/ \E clerkId \in ClerkIds, user \in UserUpdates : updateUser(clerkId, user)

Next ==
  \/ NextSettle \/ NextForms \/ NextCatalog \/ NextPages \/ NextUsers
  \/ NextApply \/ NextSave

\* The whole system. Its state space is the product of the parts below; the
\* properties are verified on the parts.
Spec == Init /\ [][Next]_vars
\* The transformation forms of user u1, with one purchase running beside them.
SpecGate == Init /\ [][NextForms \/ NextPurchase]_vars
\* Purchase settlement: every webhook request, with one form spending beside it.
SpecSettle == Init /\ [][NextSettle \/ NextSpend]_vars

\* The image catalog and account deletion, with one purchase beside them.
SpecCatalog == InitCatalog /\ [][NextCatalog \/ NextPurchase]_vars

\* The ledger: concurrent charges and a purchase on the balance of one user.
SpecLedger == Init /\ [][NextCharges \/ NextPurchase]_vars

\* The user records: creation, profile update and deletion, with one
\* purchase beside them.
SpecUsers == InitCatalog /\ [][NextUsers \/ NextPurchase]_vars

\* The external identities of the user records.
SpecIdentity == InitCatalog /\ [][NextIdentity]_vars

\* Apply Transformation, with one purchase beside it.
SpecApply == Init /\ [][NextApply \/ NextPurchase]_vars

\* Form f1 with what the browser guarantees: an image that is loading ends
\* by loading or by failing, and a started timer fires. Nothing obliges the
\* user to act.
SpecFormLive ==
  /\ Init
  /\ [][NextForm1]_vars
  /\ WF_vars(onLoad("f1") \/ onError("f1"))
  /\ WF_vars(onErrorDebounced("f1"))
  /\ WF_vars(FormUpdateCredits("f1"))

\* Saving an image, beside the operations that write to user records.
SpecSave == Init /\ [][NextSave]_vars

\* Paged listing of a fixed set of images.
SpecPages == InitPages /\ [][NextPages]_vars

\* ------------------------------------------------------------- accounting
RECURSIVE SumOver(_, _)
\* The sum of val[x] over the elements x of the set S.
SumOver(S, val) ==
  IF S = {} THEN 0
  ELSE LET x == CHOOSE y \in S : TRUE IN val[x] + SumOver(S \ {x}, val)

Cost == Abs(creditFee)

TxCount(s) == Cardinality({i \in DOMAIN transactions : transactions[i].stripeId = s})

\* The payment sessions for which the webhook answered OK, that is, for which
\* createTransaction ran to its end.
SettledSessions ==
  {Events[hooks[d].evt].id : d \in {c \in Deliveries : hooks[c].resp = "OK"}}

\* The credits of the recorded transactions of buyer u whose session is settled.
Purchased(u) ==
  LET idx == {i \in DOMAIN transactions :
                /\ transactions[i].buyerId = u
                /\ transactions[i].stripeId \in SettledSessions}
  IN SumOver(idx, [i \in idx |-> transactions[i].credits])

FormsOf(u) == {f \in Forms : FormUser[f] = u}

\* The number of charges the server has applied for the forms of user u.
Applied(u) ==
  SumOver(FormsOf(u), [f \in FormsOf(u) |-> forms[f].clicks - forms[f].pending])

\* A failed load has been surfaced on form f (the debounce of onError has
\* fired) and every charge of the form has been applied.
FailedSurfaced(f) ==
  /\ forms[f].img = "failed"
  /\ ~forms[f].errTimer
  /\ forms[f].clicks > 0
  /\ forms[f].pending = 0

NoPurchaseFor(u) ==
  /\ \A i \in DOMAIN transactions : transactions[i].buyerId # u
  /\ \A d \in Deliveries : hooks[d].pc \in {"idle", "done"}

\* ------------------------------------------------------------------ claims

\* C1: for every user and every interleaving of balance adjustments through
\* updateCredits, the stored credit balance is never below zero.
C1_BalanceNonNegative ==
  \A u \in DOMAIN users : users[u].credits >= 0

\* Every request that carries checkout session s has been answered, and one of
\* them was a signed checkout-completed event.
SessionDelivered(s) ==
  /\ \A d \in Deliveries :
       Events[hooks[d].evt].id = s => hooks[d].pc \in {"idle", "done"}
  /\ \E d \in Deliveries :
       /\ hooks[d].pc = "done"
       /\ hooks[d].sigValid
       /\ Events[hooks[d].evt].id = s
       /\ Events[hooks[d].evt].type = CheckoutCompleted

BuyerOf(s) == Events[CHOOSE e \in EventNames : Events[e].id = s].buyerId

\* C2: delivering the same confirmed-payment event twice results in exactly one
\* Transaction record and exactly one balance increment: there is at most one
\* record per session; every balance is the initial balance plus the credits
\* of the user's settled sessions, each counted once, plus the fees of the
\* applied charges; and once the deliveries of a session of an existing buyer
\* are answered, the session has its one record and is settled.
C2_IdempotentPurchase ==
  /\ \A s \in SessionIds : TxCount(s) <= 1
  /\ \A u \in UserIds :
       users[u].credits = credits0[u] + Purchased(u) + creditFee * Applied(u)
  /\ \A s \in SessionIds :
       (SessionDelivered(s) /\ BuyerOf(s) \in DOMAIN users) =>
          TxCount(s) = 1 /\ s \in SettledSessions

\* Event e1 was delivered twice with a valid signature and both requests are
\* answered: one record, one increment of 2 credits.
C2_Witness ==
  /\ \A d \in {1, 2} : /\ hooks[d].pc = "done"
                       /\ hooks[d].evt = "e1"
                       /\ hooks[d].sigValid
  /\ {hooks[1].resp, hooks[2].resp} = {"OK", "Error500"}
  /\ Len(transactions) = 1
  /\ users["u1"].credits = credits0["u1"] + 2

\* C3: two concurrent spend requests of cost c for the same user against a
\* starting balance b with c <= b < 2c end with exactly one approved and a
\* final balance of b - c.
C3_ExactlyOneSpendApproved ==
  \A u \in UserIds :
    ( /\ FormsOf(u) # {}
      /\ Cost <= credits0[u]
      /\ credits0[u] < 2 * Cost
      /\ NoPurchaseFor(u)
      /\ \A f \in FormsOf(u) : forms[f].clicks = 1 /\ forms[f].pending = 0 )
    => /\ Applied(u) = 1
       /\ users[u].credits = credits0[u] - Cost

\* C4: a transformation request made when the user's balance is below the cost
\* mutates nothing: no charge is applied to a balance below the cost, and a
\* click made then neither sends a charge nor starts a transformation.
C4_DeniedWithoutMutation ==
  [][\A f \in Forms :
       LET u == FormUser[f] IN
       users[u].credits < Cost =>
         /\ users'[u].credits >= users[u].credits
         /\ forms'[f].clicks # forms[f].clicks =>
              /\ forms'[f].pending = forms[f].pending
              /\ forms'[f].img = forms[f].img]_vars

\* C5: the external transformation is invoked only after the credit charge for
\* it has succeeded: a step that starts loading the transformed image is taken
\* only when every charge of the form has been applied.
C5_ChargeBeforeTransformation ==
  [][\A f \in Forms :
       (forms'[f].img = "loading" /\ forms[f].img # "loading") =>
          /\ forms'[f].clicks > 0
          /\ forms'[f].pending = 0]_vars

\* C6: whenever a charged transformation fails upstream, +cost is credited to
\* the user before the failure is surfaced: the balance is at least the initial
\* balance plus purchases minus the cost of the applied charges, not counting
\* one charge for every form that shows a surfaced failure.
C6_FailedTransformationRefunded ==
  \A u \in UserIds :
    LET failed == {f \in FormsOf(u) : FailedSurfaced(f)} IN
    users[u].credits >=
      credits0[u] + Purchased(u) - Cost * (Applied(u) - Cardinality(failed))

\* C7: an approved charge followed by an upstream failure and its compensation,
\* with no other operation on the user, leaves the balance at its value before
\* the request.
C7_ChargeRefundIdentity ==
  \A f \in Forms :
    LET u == FormUser[f] IN
    ( /\ FailedSurfaced(f)
      /\ forms[f].clicks = 1
      /\ \A g \in FormsOf(u) \ {f} : forms[g].clicks = 0
      /\ NoPurchaseFor(u)
      /\ credits0[u] >= Cost )
    => users[u].credits = credits0[u]

\* C8: for a purchase the balance increment and the Transaction record are
\* written together or not at all: in every state the sessions that have a
\* Transaction record are exactly the sessions whose credits were added.
C8_TransactionAndCreditTogether ==
  {transactions[i].stripeId : i \in DOMAIN transactions} = SettledSessions

\* C9: at most one Transaction record exists per payment-session identifier.
C9_OneTransactionPerSession ==
  \A i, j \in DOMAIN transactions :
    transactions[i].stripeId = transactions[j].stripeId => i = j

\* Two requests carried the same checkout session; the second was received and
\* answered (duplicate key) while the first was between its two writes: one record.
C9_Witness ==
  /\ hooks[1].pc = "created" /\ hooks[1].evt = "e2" /\ hooks[1].sigValid
  /\ hooks[2].pc = "done" /\ hooks[2].evt = "e2" /\ hooks[2].sigValid
  /\ hooks[2].resp = "Error500"
  /\ Len(transactions) = 1
  /\ transactions[1].stripeId = "cs_2"

\* C10: a webhook request whose signature fails verification causes no state
\* mutation: the step that handles it changes neither the users nor the
\* transactions and answers at once.
C10_InvalidSignatureNoWrites ==
  [][\A d \in Deliveries :
       (hooks[d].pc = "sent" /\ ~hooks[d].sigValid /\ hooks'[d] # hooks[d]) =>
          /\ users' = users
          /\ transactions' = transactions
          /\ hooks'[d].pc = "done"]_vars

\* A request with a bad signature that carried a checkout-completed event for
\* an existing user has been answered, and nothing was written.
C10_Witness ==
  \E d \in Deliveries :
    /\ hooks[d].pc = "done"
    /\ ~hooks[d].sigValid
    /\ hooks[d].evt = "e1"
    /\ hooks[d].resp = "WebhookError"
    /\ transactions = <<>>
    /\ users["u1"].credits = credits0["u1"]

\* A checkout-completed event the settlement must reject: its credits are not
\* positive (or missing), or its buyer resolves to no user.
InvalidPurchaseEvent(ev) ==
  /\ ev.type = CheckoutCompleted
  /\ \/ NumberOrZero(ev.metaCredits) <= 0
     \/ ev.buyerId \notin DOMAIN users

\* C11: a webhook handler error (failed signature verification or an invalid
\* purchase event) is answered with a non-success status, never with a success.
C11_ErrorsAreRejections ==
  \A d \in Deliveries :
    ( /\ hooks[d].pc = "done"
      /\ \/ ~hooks[d].sigValid
         \/ InvalidPurchaseEvent(Events[hooks[d].evt]) )
    => ResponseStatus(hooks[d].resp) >= 400

\* C12: a verified checkout-completed event whose credits are <= 0 (or
\* missing) or whose buyer resolves to no user is rejected: no Transaction
\* record of such an event exists.
C12_InvalidPurchaseRejected ==
  \A i \in DOMAIN transactions :
    /\ transactions[i].credits > 0
    /\ transactions[i].buyerId \in DOMAIN users

\* C13: an updateImage call whose userId is not the author of the image it
\* names, or whose image id names no record, ends with the error
\* "Unauthorized or image not found" and changes no Image record; and no step
\* of an updateImage call creates a record.
C13_UpdateImageStep ==
  \A c \in Calls :
    (reqs[c].op = "updateImage" /\ reqs'[c] # reqs[c]) =>
      /\ DOMAIN images' = DOMAIN images
      /\ ( /\ reqs[c].pc = "called"
           /\ \/ reqs[c].imageId \notin DOMAIN images
              \/ images[reqs[c].imageId].author # reqs[c].userId )
         => /\ reqs'[c].pc = "done"
            /\ reqs'[c].result = "Unauthorized or image not found"
            /\ images' = images

C13_NonAuthorUpdateRejected == [][C13_UpdateImageStep]_vars

\* User u2 was refused an update of u1's image 1, and an update of image 2,
\* which does not exist, was refused as well.
C13_Witness ==
  /\ reqs[1].op = "updateImage" /\ reqs[1].pc = "done"
  /\ reqs[1].userId = "u2" /\ reqs[1].imageId = 1
  /\ reqs[1].result = "Unauthorized or image not found"
  /\ reqs[2].op = "updateImage" /\ reqs[2].pc = "done"
  /\ reqs[2].imageId = 2
  /\ reqs[2].result = "Unauthorized or image not found"
  /\ images = InitImages

\* C14: a deleteImage call made by a user who is not the author of the image
\* ends with "Unauthorized" and leaves the Image record in the store.
C14_DeleteImageStep ==
  \A c \in Calls :
    ( /\ reqs[c].op = "deleteImage" /\ reqs[c].pc = "called"
      /\ reqs'[c].pc = "done"
      /\ reqs[c].imageId \in DOMAIN images
      /\ images[reqs[c].imageId].author # reqs[c].userId )
    => /\ images' = images
       /\ reqs'[c].result = "Unauthorized"

C14_NonAuthorDeleteRejected == [][C14_DeleteImageStep]_vars

\* The images of the pages fetched so far, in the order received.
RECURSIVE PagesData(_)
PagesData(rs) ==
  IF rs = <<>> THEN <<>> ELSE PagesData(SubSeq(rs, 1, Len(rs) - 1)) \o rs[Len(rs)].data

ListingComplete ==
  /\ pages.kind # "none"
  /\ Len(pages.results) >= pages.results[1].totalPage

\* C15: once pages 1..totalPage of a listing have been fetched, the pages
\* together hold every matching image exactly once, in descending updatedAt
\* order, also when images share an updatedAt value.
C15_PagesPartitionMatching ==
  ListingComplete =>
    LET all == PagesData(pages.results)
        S == Matching(images, pages.kind, pages.userId)
    IN  /\ Len(all) = Cardinality(S)
        /\ {all[i] : i \in DOMAIN all} = S
        /\ \A i, j \in DOMAIN all :
             i < j => images[all[i]].updatedAt >= images[all[j]].updatedAt

\* C16: every page a listing returns reports totalPage = ceil(n / limit), n
\* being the number of images its filter selects: the least whole number of
\* pages of that size that hold n images. 25 images at page size 9 give 3
\* pages, and no images give 0 pages.
C16_TotalPageIsCeil ==
  /\ \A k \in DOMAIN pages.results :
       LET n == Cardinality({i \in DOMAIN images :
                               pages.kind = "user" => images[i].author = pages.userId})
           tp == pages.results[k].totalPage
       IN  /\ tp * pages.limit >= n
           /\ (tp - 1) * pages.limit < n
  /\ MathCeilDiv(25, 9) = 3
  /\ \A limit \in 1..MaxLimit : MathCeilDiv(0, limit) = 0

\* Three images listed two to a page: two pages, the second one not full.
C16_Witness ==
  /\ pages.kind = "all" /\ pages.limit = 2
  /\ Cardinality(DOMAIN images) = 3
  /\ Len(pages.results) = 2
  /\ pages.results[2].totalPage = 2
  /\ Len(pages.results[2].data) = 1

\* C17: no balance adjustment is lost. In every state, whatever the
\* interleaving of the charges of a user's forms and of the credits of the
\* user's purchases, the stored balance is the initial balance plus the sum
\* of the deltas of the adjustments applied so far.
C17_NoLostUpdate ==
  \A u \in UserIds :
    users[u].credits = credits0[u] + Purchased(u) + creditFee * Applied(u)

\* Both forms of user u1 and a purchase have adjusted the balance of u1, one
\* form twice, and no adjustment is outstanding.
C17_Witness ==
  /\ forms["f1"].clicks = 2 /\ forms["f1"].pending = 0
  /\ forms["f2"].clicks > 0 /\ forms["f2"].pending = 0
  /\ FormUser["f1"] = FormUser["f2"]
  /\ hooks[1].resp = "OK"
  /\ Events[hooks[1].evt].buyerId = FormUser["f1"]
  /\ users[FormUser["f1"]].credits =
       credits0[FormUser["f1"]] + 2 + creditFee * (2 + forms["f2"].clicks)

\* The confirmed payment events received so far: the checkout-completed events
\* of the answered requests whose signature verified.
ConfirmedEvents ==
  {hooks[d].evt : d \in {c \in Deliveries :
                           /\ hooks[c].pc = "done"
                           /\ hooks[c].sigValid
                           /\ Events[hooks[c].evt].type = CheckoutCompleted}}

\* The credits of the events in E that name user u as their buyer.
CreditsOf(E, u) ==
  LET Eu == {e \in E : Events[e].buyerId = u}
  IN SumOver(Eu, [e \in Eu |-> NumberOrZero(Events[e].metaCredits)])

\* C18: settlement does not depend on the order of delivery. Once every
\* request is answered, the Transaction records and the balances are a
\* function of the set of confirmed events alone, whatever the order and the
\* repetitions of their deliveries: one record per event, and each existing
\* buyer's balance raised by the credits of the buyer's events.
C18_DeliveryOrderInsensitive ==
  (\A d \in Deliveries : hooks[d].pc \in {"idle", "done"}) =>
    /\ {transactions[i] : i \in DOMAIN transactions}
         = {PostTransaction(Events[e]) : e \in ConfirmedEvents}
    /\ Len(transactions) = Cardinality(ConfirmedEvents)
    /\ \A u \in DOMAIN users :
         users[u].credits
           = credits0[u] + CreditsOf(ConfirmedEvents, u) + creditFee * Applied(u)

\* Event e2 was delivered before e1 but recorded after it; both are settled.
C18_Witness ==
  /\ hooks[1].evt = "e2" /\ hooks[1].resp = "OK"
  /\ hooks[2].evt = "e1" /\ hooks[2].resp = "OK"
  /\ Len(transactions) = 2
  /\ transactions[1].stripeId = "cs_1"
  /\ transactions[2].stripeId = "cs_2"
  /\ users["u1"].credits = credits0["u1"] + 2 + creditFee * Applied("u1")
  /\ users["u2"].credits = credits0["u2"] + 1

\* C19: a step of an addImage call adds an Image record only while its userId
\* is the id of an existing User, and the record added is a single new one
\* whose author is that userId; an addImage call that finds no User for its
\* userId ends with "User not found" and leaves the Image records unchanged.
C19_AddImageStep ==
  \A c \in Calls :
    (reqs[c].op = "addImage" /\ reqs'[c] # reqs[c]) =>
      /\ images' # images =>
           /\ reqs[c].userId \in DOMAIN users
           /\ \E id \in ImageIds \ DOMAIN images :
                /\ DOMAIN images' = DOMAIN images \cup {id}
                /\ images'[id].author = reqs[c].userId
                /\ \A i \in DOMAIN images : images'[i] = images[i]
      /\ (reqs[c].pc = "called" /\ reqs[c].userId \notin DOMAIN users) =>
           /\ reqs'[c].pc = "done"
           /\ reqs'[c].result = "User not found"
           /\ images' = images

C19_AddImageAuthorExists == [][C19_AddImageStep]_vars

\* C20: no step updates or deletes a Transaction record: every record of the
\* store is in the store after the step, with the same session id, amount,
\* plan, credits and buyer.
C20_TransactionsKept ==
  \A i \in DOMAIN transactions :
    /\ i \in DOMAIN transactions'
    /\ transactions'[i] = transactions[i]

C20_TransactionImmutable == [][C20_TransactionsKept]_vars

\* The buyer of a recorded purchase has deleted the account; the Transaction
\* record is still in the store as it was created.
C20_Witness ==
  /\ "u1" \notin DOMAIN users
  /\ \E c \in Calls : /\ reqs[c].op = "deleteUser" /\ reqs[c].pc = "done"
                      /\ reqs[c].userId = ClerkOf["u1"] /\ reqs[c].result = "ok"
  /\ Len(transactions) = 1
  /\ transactions[1] = PostTransaction(Events["e1"])

\* A step in which updateCredits has run: the webhook's createTransaction
\* passed its updateCredits call, or a form's charge was applied.
UpdateCreditsStep ==
  \/ \E d \in Deliveries : hooks[d].pc = "created" /\ hooks'[d].pc = "done"
  \/ \E f \in Forms : forms'[f].pending < forms[f].pending

\* C21: the credit balance of a stored user changes only in a step of
\* updateCredits: no step of updateUser, whatever its update object, and no
\* step of createUser or deleteUser changes the balance of a user that is in
\* the store before and after it.
C21_BalanceStep ==
  \A u \in DOMAIN users \cap DOMAIN users' :
    users'[u].credits # users[u].credits => UpdateCreditsStep

C21_BalanceOnlyByLedger == [][C21_BalanceStep]_vars

\* C22: in every state each external identity has at most one User record,
\* however often and in whatever order createUser is called for it.
C22_OneUserPerIdentity ==
  \A clerkId \in ClerkIds :
    Cardinality({u \in DOMAIN users : users[u].clerkId = clerkId}) <= 1

\* createUser was called twice for the new identity c3: the first call
\* stored a record, the second failed, and c3 has its one record.
C22_Witness ==
  /\ reqs[1].op = "createUser" /\ reqs[1].userId = NewClerk /\ reqs[1].result = "ok"
  /\ reqs[2].op = "createUser" /\ reqs[2].userId = NewClerk
  /\ reqs[2].result = "duplicate key"
  /\ {u \in DOMAIN users : users[u].clerkId = NewClerk} = {reqs[1].found}
  /\ userSeq = 1

\* C23: a step of a deleteUser call changes no Image and no Transaction
\* record and no User record other than the one it removes; the record it
\* removes is the one User with the call's external identity; a call that
\* finds no User with that identity ends with "User not found" and changes
\* nothing.
C23_DeleteUserStep ==
  \A c \in Calls :
    (reqs[c].op = "deleteUser" /\ reqs'[c] # reqs[c]) =>
      LET mine == {u \in DOMAIN users : users[u].clerkId = reqs[c].userId} IN
      /\ images' = images
      /\ transactions' = transactions
      /\ DOMAIN users' \subseteq DOMAIN users
      /\ \A u \in DOMAIN users' : users'[u] = users[u]
      /\ DOMAIN users \ DOMAIN users' \subseteq mine
      /\ reqs[c].pc = "called" =>
           /\ users' = users
           /\ mine = {} => /\ reqs'[c].pc = "done"
                           /\ reqs'[c].result = "User not found"
      /\ (reqs[c].pc = "found" /\ mine # {}) =>
           /\ Cardinality(DOMAIN users \ DOMAIN users') = 1
           /\ reqs'[c].result = "ok"

C24_UpdateImageStep ==
  \A c \in Calls :
    (reqs[c].op = "updateImage" /\ reqs'[c] # reqs[c]) =>
      \A i \in DOMAIN images :
        /\ i \in DOMAIN images'
        /\ images'[i].author = images[i].author

C24_UpdateKeepsAuthor == [][C24_UpdateImageStep]_vars

\* C25: a step issues at most one charge for a form, and issues it only when
\* the form has a pending transformation and no transformation in progress;
\* so each pending transformation is charged at most once.
C25_ApplyStep ==
  \A f \in Forms :
    forms'[f].clicks > forms[f].clicks =>
      /\ forms'[f].clicks = forms[f].clicks + 1
      /\ forms'[f].pending = forms[f].pending + 1
      /\ forms[f].newTransformation # Null
      /\ ~forms[f].isTransforming

C25_ChargedAtMostOnce == [][C25_ApplyStep]_vars

\* C26: whenever the form is transforming (isTransforming is true), it is
\* later not transforming.
C26_TransformingEnds ==
  forms["f1"].isTransforming ~> ~forms["f1"].isTransforming

\* C27: the step in which POST handles a request whose signature verifies
\* and whose event type is not checkout.session.completed changes neither
\* the users nor the transactions, and answers with a success status.
C27_OtherEventStep ==
  \A d \in Deliveries :
    ( /\ hooks[d].pc = "sent" /\ hooks'[d] # hooks[d]
      /\ hooks[d].sigValid
      /\ Events[hooks[d].evt].type # "checkout.session.completed" )
    => /\ users' = users
       /\ transactions' = transactions
       /\ hooks'[d].pc = "done"
       /\ ResponseStatus(hooks'[d].resp) \in 200..299

C27_OtherEventsIgnored == [][C27_OtherEventStep]_vars

\* The verified event e4 (payment_intent.succeeded) was answered with the
\* empty 200 response; there is no transaction and no balance has changed.
C27_Witness ==
  /\ hooks[1].pc = "done" /\ hooks[1].evt = "e4" /\ hooks[1].sigValid
  /\ hooks[1].resp = "Empty200"
  /\ transactions = <<>>
  /\ \A u \in UserIds : users[u].credits = credits0[u]

\* C28: a submit of the form and every step of the addImage or updateImage
\* call it makes leave the user records unchanged; a submit of a form with no
\* uploaded image makes no server call unless the form has existing data (and
\* then the call is updateImage); and a credit balance changes only in a step
\* of updateCredits, started by Apply Transformation or by the settlement of
\* a purchase.
C28_SaveStep ==
  /\ \A f \in Forms :
       forms'[f].submits > forms[f].submits =>
         /\ users' = users
         /\ (~forms[f].image /\ reqs' # reqs) =>
              \E c \in Calls : /\ reqs'[c] # reqs[c]
                               /\ reqs'[c].op = "updateImage"
                               /\ reqs'[c].imageId # 0
  /\ \A c \in Calls :
       (reqs[c].op \in {"addImage", "updateImage"} /\ reqs'[c] # reqs[c]) =>
         users' = users
  /\ \A u \in DOMAIN users \cap DOMAIN users' :
       users'[u].credits # users[u].credits =>
         \/ \E f \in Forms : forms[f].clicks > 0 /\ forms'[f].pending < forms[f].pending
         \/ \E d \in Deliveries :
              /\ hooks[d].pc = "created" /\ hooks'[d].pc = "done"
              /\ Events[hooks[d].evt].type = CheckoutCompleted

C28_SavingKeepsCredits == [][C28_SaveStep]_vars

\* C29: every page getUserImages returns holds only images whose author is
\* the userId asked for, and its page count is the number of pages of the
\* page size that the images of that author fill.
C29_UserImagesOnlyOwn ==
  pages.kind = "user" =>
    LET own == {i \in DOMAIN images : images[i].author = pages.userId} IN
    \A k \in DOMAIN pages.results :
      /\ \A j \in DOMAIN pages.results[k].data :
           /\ pages.results[k].data[j] \in DOMAIN images
           /\ images[pages.results[k].data[j]].author = pages.userId
      /\ pages.results[k].totalPage
           = (Cardinality(own) + pages.limit - 1) \div pages.limit

\* The store holds an image of u1 and an image of u2; the listing of u1's
\* images returned the one and reported a single page.
C29_Witness ==
  /\ pages.kind = "user" /\ pages.userId = "u1" /\ pages.limit = 2
  /\ \E i, j \in DOMAIN images : images[i].author = "u1" /\ images[j].author = "u2"
  /\ Cardinality(DOMAIN images) = 2
  /\ Len(pages.results) = 1
  /\ Len(pages.results[1].data) = 1
  /\ pages.results[1].totalPage = 1

============================================================================
